---- MODULE Spec2Model ----
(***************************************************************************)
(* Model of the spreadsheet validation / extraction service:               *)
(*   src/validator.py  ExcelValidator        (rule validator)              *)
(*   src/script.py     ExcelProcessor, DatabaseConnector, insertion runs   *)
(*   src/main.py       process_excel         (request pipeline)            *)
(*                                                                         *)
(* A sheet is the pandas DataFrame the loader returns: a rectangular grid  *)
(* of cells.  Text is a sequence of one-character strings, so that         *)
(* substring tests, lower-casing, stripping and parsing are computed.      *)
(* Numbers are fixed-point, in tenths (1505 is 150.5).                     *)
(* pandas takes the first line of the sheet as column labels, so the frame *)
(* holds the lines after it; the labels are text, and a row's cell is      *)
(* addressed by position.                                                  *)
(***************************************************************************)
EXTENDS Integers, Sequences, FiniteSets, TLC

\* ------------------------------------------------------------------ text

UpperChars ==
    <<"A","B","C","D","E","F","G","H","I","J","K","L","M",
      "N","O","P","Q","R","S","T","U","V","W","X","Y","Z">>

LowerChars ==
    <<"a","b","c","d","e","f","g","h","i","j","k","l","m",
      "n","o","p","q","r","s","t","u","v","w","x","y","z">>

DigitChars == <<"0","1","2","3","4","5","6","7","8","9">>

\* str.lower() on one character
LowerChar(c) ==
    IF \E i \in 1..26 : UpperChars[i] = c
    THEN LowerChars[CHOOSE i \in 1..26 : UpperChars[i] = c]
    ELSE c

\* str.lower()
Lower(s) == [i \in 1..Len(s) |-> LowerChar(s[i])]

\* the Python test  sub in s
Contains(sub, s) ==
    \E i \in 0..(Len(s) - Len(sub)) :
        \A j \in 1..Len(sub) : s[i + j] = sub[j]

\* str.strip(): leading and trailing blanks removed
Strip(s) ==
    LET nb == {i \in 1..Len(s) : s[i] # " "}
    IN  IF nb = {} THEN <<>>
        ELSE LET lo == CHOOSE i \in nb : \A j \in nb : i <= j
                 hi == CHOOSE i \in nb : \A j \in nb : j <= i
             IN  SubSeq(s, lo, hi)

IsDigit(c) == \E i \in 1..10 : DigitChars[i] = c

DigitVal(c) == (CHOOSE i \in 1..10 : DigitChars[i] = c) - 1

RECURSIVE DigitsVal(_)
DigitsVal(s) ==
    IF s = <<>> THEN 0
    ELSE 10 * DigitsVal(SubSeq(s, 1, Len(s) - 1)) + DigitVal(s[Len(s)])

AllDigits(s) == s # <<>> /\ \A i \in 1..Len(s) : IsDigit(s[i])

RECURSIVE NatDigits(_)
NatDigits(n) ==
    IF n < 10 THEN <<DigitChars[n + 1]>>
    ELSE NatDigits(n \div 10) \o <<DigitChars[(n % 10) + 1]>>

\* ------------------------------------------------------------------ cells

Blank   == [t |-> "Blank", n |-> 0, s |-> <<>>]
Num(x)  == [t |-> "Num",   n |-> x, s |-> <<>>]
Text(s) == [t |-> "Text",  n |-> 0, s |-> s]
Date    == [t |-> "Date",  n |-> 0, s |-> <<>>]

\* pd.isna / pd.notna
IsNa(c)  == c.t = "Blank"
NotNa(c) == c.t # "Blank"

\* a result of a coercion: ok, or the exception it raised
Ok(v)      == [ok |-> TRUE,  v |-> v, exc |-> "none"]
Raised(e)  == [ok |-> FALSE, v |-> 0, exc |-> e]

\* truncation toward zero of a number held in tenths
Trunc(x) == IF x >= 0 THEN x \div 10 ELSE -((-x) \div 10)

\* int(str): blanks stripped, an optional sign, then digits only
ParseInt(s) ==
    LET b == Strip(s)
        neg == b # <<>> /\ b[1] = "-"
        d == IF b # <<>> /\ (b[1] = "-" \/ b[1] = "+") THEN Tail(b) ELSE b
    IN  IF AllDigits(d)
        THEN Ok(IF neg THEN -DigitsVal(d) ELSE DigitsVal(d))
        ELSE Raised("ValueError")

\* float(str), in tenths: digits, optionally a point and one more digit
ParseFloat(s) ==
    LET b == Strip(s)
        dots == {i \in 1..Len(b) : b[i] = "."}
    IN  IF AllDigits(b) THEN Ok(10 * DigitsVal(b))
        ELSE IF /\ Cardinality(dots) = 1
                /\ Len(b) >= 3
                /\ b[Len(b) - 1] = "."
                /\ AllDigits(SubSeq(b, 1, Len(b) - 2))
                /\ IsDigit(b[Len(b)])
        THEN Ok(10 * DigitsVal(SubSeq(b, 1, Len(b) - 2)) + DigitVal(b[Len(b)]))
        ELSE Raised("ValueError")

\* str(cell): "nan" for a blank, the float's digits for a number
Str(c) ==
    CASE c.t = "Blank" -> <<"n","a","n">>
      [] c.t = "Text"  -> c.s
      [] c.t = "Num"   ->
            (IF c.n < 0 THEN <<"-">> ELSE <<>>)
            \o NatDigits((IF c.n < 0 THEN -c.n ELSE c.n) \div 10)
            \o <<".">> \o NatDigits((IF c.n < 0 THEN -c.n ELSE c.n) % 10)
      [] OTHER         -> <<"2","0","2","1","-","0","1","-","0","1">>

\* the validator's year coercion:
\*   int(cell) if isinstance(cell, (int, float)) else int(str(cell))
ValidatorYear(c) ==
    IF c.t = "Num" THEN Ok(Trunc(c.n)) ELSE ParseInt(Str(c))

\* the extractor's year coercion: int(year_val)
IntOf(c) ==
    CASE c.t = "Num"  -> Ok(Trunc(c.n))
      [] c.t = "Text" -> ParseInt(c.s)
      [] OTHER        -> Raised("TypeError")

\* the extractor's value coercion: float(value)
FloatOf(c) ==
    CASE c.t = "Num"  -> Ok(c.n)
      [] c.t = "Text" -> ParseFloat(c.s)
      [] OTHER        -> Raised("TypeError")

\* ------------------------------------------------------------------ grid

\* A DataFrame: ncols columns, rows a sequence of rows of ncols cells each.
NRows(df) == Len(df.rows)

\* df.iloc[i] for a 0-based i: negative i counts from the end, and an i
\* outside the frame raises IndexError
ILocOk(df, i) == -NRows(df) <= i /\ i < NRows(df)
ILoc(df, i)   == IF i >= 0 THEN df.rows[i + 1] ELSE df.rows[NRows(df) + i + 1]

\* df.empty: some axis has length 0
DfEmpty(df) == NRows(df) = 0 \/ df.ncols = 0

\* df.notna().sum().sum() == 0
AllNull(df) ==
    \A r \in 1..NRows(df) : \A c \in 1..df.ncols : IsNa(df.rows[r][c])

\* ------------------------------------------------------------------ labels

NameOfTheCompany ==
    <<"N","a","m","e"," ","o","f"," ","t","h","e"," ","C","o","m","p","a","n","y">>

TypeOfAccounts ==
    <<"T","y","p","e"," ","o","f"," ","a","c","c","o","u","n","t","s">>

TypeOfAccountsFull ==
    TypeOfAccounts \o <<" ","(","A","u","d","i","t","e","d"," ","o","r"," ",
                        "M","a","n","a","g","e","m","e","n","t",")">>

AuditLower == <<"a","u","d","i","t">>
AuditCap   == <<"A","u","d","i","t">>
YearLower  == <<"y","e","a","r">>

\* ------------------------------------------------------------------ results

Msg(check, msg, arg) == [check |-> check, msg |-> msg, arg |-> arg]

\* ExcelValidator.__init__: the fresh result
NewResults == [is_valid |-> TRUE, errors |-> <<>>, warnings |-> <<>>]

\* an _add_error that forgets the flag
AddErrorNoFlag(res, m) == [res EXCEPT !.errors = Append(@, m)]

\* ExcelValidator._add_error
AddError(res, m) ==
    [res EXCEPT !.errors = Append(@, m), !.is_valid = FALSE]

\* ExcelValidator._add_warning
AddWarning(res, m) == [res EXCEPT !.warnings = Append(@, m)]

\* what a check leaves behind: the results, and whether it raised
Done(res)   == [res |-> res, raised |-> FALSE]
Thrown(res) == [res |-> res, raised |-> TRUE]

\* ------------------------------------------------------------------ validator checks
\* Each check is given the results so far, the loaded frame and the config,
\* and leaves the results it has added to, or raises.

\* ExcelValidator._validate_sheet_not_empty
ValidateSheetNotEmpty(res, df) ==
    IF DfEmpty(df)
    THEN Done(AddError(res, Msg("sheet", "Excel sheet is empty", <<>>)))
    ELSE IF AllNull(df)
    THEN Done(AddError(res, Msg("sheet", "Excel sheet contains no data", <<>>)))
    ELSE Done(res)

\* the rows whose first cell equals "Name of the Company" (1-based positions)
CompanyRows(df) ==
    {r \in 1..NRows(df) : df.rows[r][1] = Text(NameOfTheCompany)}

\* the first of them: the loop of _validate_company_name breaks on it
FirstCompanyRow(df) ==
    CHOOSE r \in CompanyRows(df) : \A q \in CompanyRows(df) : r <= q

\* ExcelValidator._validate_company_name: no try / except around it, so the
\* IndexError of df.iloc[idx, 1] on a one-column frame leaves the check
ValidateCompanyName(res, df, cfg) ==
    IF cfg.expected_company_name = <<>>
    THEN Done(AddWarning(res, Msg("company", "No expected company name specified", <<>>)))
    ELSE IF CompanyRows(df) = {}
    THEN Done(AddError(res, Msg("company", "Could not find 'Name of the Company' row", <<>>)))
    ELSE IF df.ncols < 2
    THEN Thrown(res)
    ELSE LET cell == df.rows[FirstCompanyRow(df)][2]
         IN  IF IsNa(cell)
             THEN Done(AddError(res, Msg("company", "Company name cell is empty", <<>>)))
             ELSE IF Strip(Str(cell)) # cfg.expected_company_name
             THEN Done(AddError(res, Msg("company", "Company name mismatch",
                                         <<Strip(Str(cell))>>)))
             ELSE Done(res)

\* isinstance(cell, str) and "audit" in cell.lower()
IsAuditedCell(c) == c.t = "Text" /\ Contains(AuditLower, Lower(c.s))

\* ExcelValidator._validate_has_audited_values
ValidateHasAuditedValues(res, df, cfg) ==
    LET audit_row == cfg.Type_of_accounts_row
        audit_row_idx == audit_row - 1
    IN  IF audit_row = 0
        THEN Done(AddWarning(res, Msg("audit", "No audit type row specified", <<>>)))
        ELSE IF ~ILocOk(df, audit_row_idx)
        THEN Done(AddError(res, Msg("audit", "Error validating audit types", <<>>)))
        ELSE LET audit_row_data == ILoc(df, audit_row_idx)
             IN  IF ~Contains(TypeOfAccounts, Str(audit_row_data[1]))
                 THEN Done(AddError(res, Msg("audit",
                            "Row does not contain audit type information", <<audit_row>>)))
                 ELSE IF ~\E i \in 2..Len(audit_row_data) : IsAuditedCell(audit_row_data[i])
                 THEN Done(AddError(res, Msg("audit", "No 'Audited' value found", <<>>)))
                 ELSE Done(res)

MinYear == 1900
MaxYear == 2100

InYearRange(y) == MinYear <= y /\ y <= MaxYear

\* the loop of _validate_year_row from column i on: the warnings it adds and
\* the years it collects
RECURSIVE YearRowScan(_, _, _)
YearRowScan(row, i, acc) ==
    IF i > Len(row) THEN acc
    ELSE LET c == row[i]
             y == ValidatorYear(c)
         IN  IF IsNa(c) THEN YearRowScan(row, i + 1, acc)
             ELSE IF ~y.ok
             THEN YearRowScan(row, i + 1,
                    [acc EXCEPT !.res = AddWarning(@, Msg("year",
                        "Non-numeric year value in year row", <<i>>))])
             ELSE IF InYearRange(y.v)
             THEN YearRowScan(row, i + 1,
                    [acc EXCEPT !.years = Append(@, y.v)])
             ELSE YearRowScan(row, i + 1,
                    [acc EXCEPT !.res = AddWarning(@, Msg("year",
                        "Unusual year value in year row", <<y.v>>))])

\* ExcelValidator._validate_year_row
ValidateYearRow(res, df, cfg) ==
    LET year_row == cfg.year_row
        year_row_idx == year_row - 1
    IN  IF year_row = 0
        THEN Done(AddWarning(res, Msg("year", "No year row specified", <<>>)))
        ELSE IF ~ILocOk(df, year_row_idx)
        THEN Done(AddError(res, Msg("year", "Error validating year row", <<>>)))
        ELSE LET year_row_data == ILoc(df, year_row_idx)
                 first == year_row_data[1]
                 res1 == IF NotNa(first) /\ ~Contains(YearLower, Lower(Str(first)))
                         THEN AddWarning(res, Msg("year",
                                "Year row first cell is not empty or does not contain 'year'",
                                <<>>))
                         ELSE res
                 scan == YearRowScan(year_row_data, 2, [res |-> res1, years |-> <<>>])
             IN  IF scan.years = <<>>
                 THEN Done(AddError(scan.res, Msg("year", "No valid years found", <<>>)))
                 ELSE Done(scan.res)

\* one entry of _validate_row_names
RowNameStep(res, df, v) ==
    IF v.row = 0 \/ v.expected_name = <<>> THEN res
    ELSE IF ~ILocOk(df, v.row - 1) \/ df.ncols < 1
    THEN AddError(res, Msg("row_names", "Error validating row name", <<v.row>>))
    ELSE IF v.expected_name # Str(ILoc(df, v.row - 1)[1])
    THEN AddError(res, Msg("row_names", "Row name mismatch", <<v.row>>))
    ELSE res

RECURSIVE RowNamesFrom(_, _, _, _)
RowNamesFrom(res, df, vs, k) ==
    IF k > Len(vs) THEN res
    ELSE RowNamesFrom(RowNameStep(res, df, vs[k]), df, vs, k + 1)

\* ExcelValidator._validate_row_names
ValidateRowNames(res, df, cfg) ==
    Done(RowNamesFrom(res, df, cfg.row_validations, 1))

\* one entry of _validate_row_values
RowValueStep(res, df, v) ==
    IF v.row = 0 THEN res
    ELSE IF ~ILocOk(df, v.row - 1)
    THEN AddError(res, Msg("row_values", "Error validating values in row", <<v.row>>))
    ELSE LET row_data == ILoc(df, v.row - 1)
         IN  IF \E i \in 2..Len(row_data) : NotNa(row_data[i])
             THEN res
             ELSE AddError(res, Msg("row_values", "Row has no values across any year",
                                    <<v.row>>))

RECURSIVE RowValuesFrom(_, _, _, _)
RowValuesFrom(res, df, vs, k) ==
    IF k > Len(vs) THEN res
    ELSE RowValuesFrom(RowValueStep(res, df, vs[k]), df, vs, k + 1)

\* ExcelValidator._validate_row_values
ValidateRowValues(res, df, cfg) ==
    Done(RowValuesFrom(res, df, cfg.row_validations, 1))

\* the years the continuity check collects from column i on
RECURSIVE ContinuityYears(_, _)
ContinuityYears(row, i) ==
    IF i > Len(row) THEN <<>>
    ELSE LET c == row[i]
             y == ValidatorYear(c)
         IN  IF NotNa(c) /\ y.ok /\ InYearRange(y.v)
             THEN <<y.v>> \o ContinuityYears(row, i + 1)
             ELSE ContinuityYears(row, i + 1)

\* x put in its place in the sorted sequence s
RECURSIVE Insert(_, _)
Insert(x, s) ==
    IF s = <<>> THEN <<x>>
    ELSE IF x <= Head(s) THEN <<x>> \o s
    ELSE <<Head(s)>> \o Insert(x, Tail(s))

\* list.sort()
RECURSIVE Sort(_)
Sort(s) == IF s = <<>> THEN <<>> ELSE Insert(Head(s), Sort(Tail(s)))

\* the gap warnings of the sorted years from position i on
RECURSIVE GapWarnings(_, _, _)
GapWarnings(res, years, i) ==
    IF i >= Len(years) THEN res
    ELSE IF years[i + 1] - years[i] > 1
    THEN GapWarnings(AddWarning(res, Msg("continuity", "Gap in year sequence",
                                         <<years[i], years[i + 1]>>)), years, i + 1)
    ELSE GapWarnings(res, years, i + 1)

\* ExcelValidator._validate_column_continuity
ValidateColumnContinuity(res, df, cfg) ==
    LET year_row == cfg.year_row
        year_row_idx == year_row - 1
    IN  IF year_row = 0 THEN Done(res)
        ELSE IF ~ILocOk(df, year_row_idx)
        THEN Done(AddWarning(res, Msg("continuity", "Error checking year continuity", <<>>)))
        ELSE LET years == Sort(ContinuityYears(ILoc(df, year_row_idx), 2))
                 res1 == GapWarnings(res, years, 1)
                 min_years == cfg.min_required_years
             IN  IF years = <<>> THEN Done(res)
                 ELSE IF min_years > 0 /\ Len(years) < min_years
                 THEN Done(AddError(res1, Msg("continuity", "Insufficient number of years",
                                              <<Len(years), min_years>>)))
                 ELSE Done(res1)

\* ------------------------------------------------------------------ extractor
\* Optional config values: <<>> is None, <<n>> is the value n.
None    == <<>>
Some(n) == <<n>>
IsNone(o) == o = <<>>
Val(o)    == o[1]

\* range(1, min(11, len(year_row))): the 0-based columns considered
YearWindowEnd == 11

\* a window one column too wide
WiderYearColumns(width) ==
    {col \in 1..(width - 1) : col < YearWindowEnd + 1}

YearColumns(width) ==
    {col \in 1..(width - 1) : col < YearWindowEnd}

\* "audited" if "Audit" in str(acc_raw) else "managed"
Classify(acc_raw) ==
    IF Contains(AuditCap, Str(acc_raw)) THEN "audited" ELSE "managed"

\* the account type of 0-based column col: None when there is no account-type
\* row, the column is beyond it, or the cell is blank
AccType(account_type_row, col) ==
    IF IsNone(account_type_row) THEN "None"
    ELSE IF ~(col < Len(Val(account_type_row))) THEN "None"
    ELSE IF IsNa(Val(account_type_row)[col + 1]) THEN "None"
    ELSE Classify(Val(account_type_row)[col + 1])

\* a sequential counter would not depend on the column at all
YearIdConstant(col) == 0

\* 'year_id': col - 1
YearId(col) == col - 1

\* the entry the loop of extract_metadata adds for column col, if any
YearEntry(year_row, account_type_row, col) ==
    LET year_val == year_row[col + 1]
        year == IntOf(year_val)
    IN  IF NotNa(year_val) /\ year.ok
        THEN <<[col |-> col, year |-> year.v,
                acc_type |-> AccType(account_type_row, col),
                year_id |-> YearId(col)]>>
        ELSE <<>>

\* metadata['years'], in insertion order: the columns in increasing order
RECURSIVE YearsFrom(_, _, _)
YearsFrom(year_row, account_type_row, col) ==
    IF col \notin YearColumns(Len(year_row)) THEN <<>>
    ELSE YearEntry(year_row, account_type_row, col)
         \o YearsFrom(year_row, account_type_row, col + 1)

\* the rows whose first cell equals the full account-type label
AccountLabelRows(df) ==
    {r \in 1..NRows(df) : df.rows[r][1] = Text(TypeOfAccountsFull)}

\* whether extract_metadata raises: the label column of a frame with no
\* columns, the company cell iloc[0, 2] of a frame under three columns wide,
\* or a configured row outside the frame
MetadataRaises(df, cfg) ==
    \/ df.ncols = 0
    \/ CompanyRows(df) # {} /\ df.ncols < 3
    \/ ~IsNone(cfg.year_row) /\ ~ILocOk(df, Val(cfg.year_row))
    \/ ~IsNone(cfg.account_type_row) /\ ~ILocOk(df, Val(cfg.account_type_row))

\* the account-type row: the configured one, else the first labelled one
AccountTypeRow(df, cfg) ==
    IF ~IsNone(cfg.account_type_row)
    THEN Some(ILoc(df, Val(cfg.account_type_row)))
    ELSE IF AccountLabelRows(df) # {}
    THEN Some(df.rows[CHOOSE r \in AccountLabelRows(df) :
                        \A q \in AccountLabelRows(df) : r <= q])
    ELSE None

NoMetadata == [raised |-> TRUE, company_name |-> None, years |-> <<>>]

\* ExcelProcessor.extract_metadata
ExtractMetadata(df, cfg) ==
    IF MetadataRaises(df, cfg) THEN NoMetadata
    ELSE [raised |-> FALSE,
          company_name |-> IF CompanyRows(df) # {}
                           THEN Some(df.rows[FirstCompanyRow(df)][3])
                           ELSE None,
          years |-> IF IsNone(cfg.year_row) THEN <<>>
                    ELSE YearsFrom(ILoc(df, Val(cfg.year_row)),
                                   AccountTypeRow(df, cfg), 1)]

\* the record of one (attribute, year) pair, if its cell gives one
RecordOf(attribute_row, attribute, year_info, req) ==
    LET value == attribute_row[year_info.col + 1]
    IN  IF IsNa(value) \/ ~FloatOf(value).ok THEN <<>>
        ELSE <<[acc_type |-> year_info.acc_type,
                application_id |-> req.application_id,
                att_id |-> attribute.id,
                att_name |-> attribute.name,
                att_value |-> FloatOf(value).v,
                customer_id |-> req.customer_id,
                year |-> year_info.year,
                year_id |-> year_info.year_id]>>

RECURSIVE AttributeRecords(_, _, _, _, _)
AttributeRecords(attribute_row, attribute, years, k, req) ==
    IF k > Len(years) THEN <<>>
    ELSE RecordOf(attribute_row, attribute, years[k], req)
         \o AttributeRecords(attribute_row, attribute, years, k + 1, req)

\* row_number = attribute['row'] - 2
AttributeRowNumber(attribute) == attribute.row - 2

\* a loop that a failing attribute row ends
RECURSIVE RecordsFromAborting(_, _, _, _, _)
RecordsFromAborting(df, attrs, years, k, req) ==
    IF k > Len(attrs) THEN <<>>
    ELSE IF ~ILocOk(df, AttributeRowNumber(attrs[k])) THEN <<>>
    ELSE AttributeRecords(ILoc(df, AttributeRowNumber(attrs[k])),
                          attrs[k], years, 1, req)
         \o RecordsFromAborting(df, attrs, years, k + 1, req)

\* the records of attributes k.. : an attribute whose row is outside the
\* frame is logged and skipped
RECURSIVE RecordsFrom(_, _, _, _, _)
RecordsFrom(df, attrs, years, k, req) ==
    IF k > Len(attrs) THEN <<>>
    ELSE (IF ILocOk(df, AttributeRowNumber(attrs[k]))
          THEN AttributeRecords(ILoc(df, AttributeRowNumber(attrs[k])),
                                attrs[k], years, 1, req)
          ELSE <<>>)
         \o RecordsFrom(df, attrs, years, k + 1, req)

\* ExcelProcessor.extract_financial_data, given the metadata it extracted
ExtractFinancialData(df, attrs, metadata, req) ==
    RecordsFrom(df, attrs, metadata.years, 1, req)

\* ------------------------------------------------------------------ inputs
\* The sheets and configs a run is given.  A sheet is built from rows of
\* three cells (label, first value, second value); at a width w the two
\* value cells repeat along the row, at width 1 only the label is left.

ApiMaxRows == 2
CliMaxRows == 2
WideWidth  == 12

Acme       == <<"A","c","m","e">>
OtherInc   == <<"O","t","h","e","r">>
Revenue    == <<"R","e","v","e","n","u","e">>
Cost       == <<"C","o","s","t">>
Audited    == <<"A","u","d","i","t","e","d">>
AUDITED    == <<"A","U","D","I","T","E","D">>
Management == <<"M","a","n","a","g","e","m","e","n","t"," ",
                "A","c","c","o","u","n","t","s">>

ApiRows ==
    { <<Text(NameOfTheCompany), Text(Acme), Text(OtherInc)>>,
      <<Text(TypeOfAccountsFull), Text(AUDITED), Text(Management)>>,
      <<Text(<<"Y","e","a","r">>), Num(20210), Num(20230)>>,
      <<Text(Revenue), Num(1505), Blank>>,
      <<Blank, Blank, Blank>> }

CliRows ==
    { <<Blank, Num(20210), Num(30000)>>,
      <<Text(<<"Y","e","a","r">>), Blank, Text(<<"2","0","2","2">>)>>,
      <<Text(TypeOfAccountsFull), Text(Audited), Text(Management)>>,
      <<Text(TypeOfAccounts), Text(AUDITED), Blank>>,
      <<Text(Revenue), Num(1505), Text(<<"2","0","0",".","0">>)>>,
      <<Text(Cost), Text(<<"n","/","a">>), Date>> }

SeqsUpTo(S, n) == UNION {[1..k -> S] : k \in 0..n}

\* a row of three cells laid out at width w
Widen(r, w) ==
    [c \in 1..w |-> IF c = 1 THEN r[1] ELSE IF c % 2 = 0 THEN r[2] ELSE r[3]]

Frame(rs, w) == [ncols |-> w, rows |-> [i \in 1..Len(rs) |-> Widen(rs[i], w)]]

\* a sheet with nothing on it loads as a frame with no rows and no columns
EmptySheet == [ncols |-> 0, rows |-> <<>>]

ApiSheets ==
    {EmptySheet} \cup
    {Frame(rs, w) : rs \in SeqsUpTo(ApiRows, ApiMaxRows), w \in {1, 3, 5}}

CliSheets ==
    {EmptySheet} \cup
    {Frame(rs, w) : rs \in SeqsUpTo(CliRows, CliMaxRows), w \in {3, WideWidth}}

\* the validation configs: a row number of 0 stands for an absent key
RowChecks(n) ==
    { <<>>,
      << [row |-> 0, expected_name |-> Revenue],
         [row |-> n, expected_name |-> Revenue],
         [row |-> n + 1, expected_name |-> Revenue] >> }

ValConfigs ==
    { [expected_company_name |-> e, validate_audit_type |-> a.v,
       Type_of_accounts_row |-> a.r, year_row |-> y,
       row_validations |-> rv,
       min_required_years |-> IF rv = <<>> THEN 0 ELSE 3] :
         e \in {<<>>, Acme},
         a \in {[v |-> TRUE, r |-> 0], [v |-> TRUE, r |-> 1], [v |-> FALSE, r |-> 1]},
         y \in 0..(ApiMaxRows + 1),
         rv \in RowChecks(ApiMaxRows) }

Attr(id, row, name) == [id |-> id, row |-> row, name |-> name]

AttributeLists(n) ==
    { <<>>,
      <<Attr(1, n + 1, Revenue)>>,
      <<Attr(1, n + 3, Revenue), Attr(2, n, Cost), Attr(3, 1, Revenue)>> }

\* the insertion configs for sheets of up to n rows
InsConfigs(n) ==
    { [year_row |-> y, account_type_row |-> a, attributes |-> at] :
         y \in {None} \cup {Some(i) : i \in 0..n},
         a \in {None, Some(1)},
         at \in AttributeLists(n) }

Requests == {[customer_id |-> 7, application_id |-> 9]}

\* ------------------------------------------------------------------ state

VARIABLES
    entry,               \* "api": main.py process_excel; "cli": script.py main
    pc,                  \* the position of the run
    file,                \* the uploaded sheet, once a loader has read it
    val_config,          \* the validation config, once loaded
    ins_config,          \* the insertion config, once loaded
    request,             \* customer_id and application_id of the run
    vdf,                 \* ExcelValidator.df
    validation_results,  \* ExcelValidator.validation_results
    pdf,                 \* ExcelProcessor.df
    metadata,            \* what extract_metadata returned
    data_rows,           \* what extract_financial_data returned
    db,                  \* the connection: open, rows pending, rows committed
    success,             \* what insert_data returned
    log,                 \* the steps performed, in order
    response             \* what the run answered

vars == <<entry, pc, file, val_config, ins_config, request, vdf,
          validation_results, pdf, metadata, data_rows, db, success, log,
          response>>

NoDb == [connected |-> FALSE, pending |-> <<>>, table |-> <<>>]

InitCommon ==
    /\ file = None
    /\ val_config = None
    /\ ins_config = None
    /\ request \in Requests
    /\ vdf = None
    /\ validation_results = NewResults
    /\ pdf = None
    /\ metadata = NoMetadata
    /\ data_rows = <<>>
    /\ db = NoDb
    /\ success = FALSE
    /\ log = <<>>
    /\ response = "none"

\* a request arrives at process_excel
Init == entry = "api" /\ pc = "start" /\ InitCommon

\* script.py is started from the command line
InitCli == entry = "cli" /\ pc = "i_config" /\ InitCommon

Finish(r) == pc' = "done" /\ response' = r

\* the run's failure: HTTP 500 from the pipeline, exit code 1 from the CLI
Failure == IF entry = "api" THEN "500" ELSE "exit1"
Success == IF entry = "api" THEN "200" ELSE "exit0"

\* ------------------------------------------------------------------ validation

\* main.py: load_config(val_cfg_path), then ExcelValidator(val_config)
LoadValConfig ==
    /\ pc = "start"
    /\ \/ /\ \E cfg \in ValConfigs : val_config' = Some(cfg)
          /\ validation_results' = NewResults
          /\ pc' = "v_exists"
          /\ log' = Append(log, "load_val_config")
          /\ UNCHANGED response
       \/ /\ Finish("500")
          /\ log' = Append(log, "load_val_config_failed")
          /\ UNCHANGED <<val_config, validation_results>>
    /\ UNCHANGED <<entry, file, ins_config, request, vdf, pdf, metadata,
                   data_rows, db, success>>

ValidatorUnchanged ==
    UNCHANGED <<entry, val_config, ins_config, request, pdf, metadata,
                data_rows, db, success, response>>

\* validate_file: _validate_file_exists, returning at once when it fails
ValidateFileExists ==
    /\ pc = "v_exists"
    /\ \/ /\ pc' = "v_ext"
          /\ UNCHANGED validation_results
       \/ /\ validation_results' =
                AddError(validation_results, Msg("file", "File does not exist", <<>>))
          /\ pc' = "v_done"
    /\ log' = Append(log, "file_exists")
    /\ UNCHANGED <<file, vdf>>
    /\ ValidatorUnchanged

\* validate_file: _validate_file_extension
ValidateFileExtension ==
    /\ pc = "v_ext"
    /\ \/ /\ pc' = "v_load"
          /\ UNCHANGED validation_results
       \/ /\ validation_results' =
                AddError(validation_results, Msg("file", "Invalid file format", <<>>))
          /\ pc' = "v_done"
    /\ log' = Append(log, "file_extension")
    /\ UNCHANGED <<file, vdf>>
    /\ ValidatorUnchanged

\* the sheets a path can hold: a path read before holds what it held
SheetsAtPath == IF file = None THEN ApiSheets ELSE {Val(file)}

\* validate_file: _load_excel
LoadExcel ==
    /\ pc = "v_load"
    /\ \/ /\ \E sheet \in SheetsAtPath : file' = Some(sheet) /\ vdf' = Some(sheet)
          /\ pc' = "v_sheet"
          /\ UNCHANGED validation_results
       \/ /\ validation_results' =
                AddError(validation_results, Msg("file", "Error loading Excel file", <<>>))
          /\ pc' = "v_done"
          /\ UNCHANGED <<file, vdf>>
    /\ log' = Append(log, "load_excel")
    /\ ValidatorUnchanged

\* one check of validate_file: its findings are added and the next check is
\* due; an exception the check lets out leaves validate_file and is caught
\* by process_excel, which answers 500; a caller that does not catch it dies
CheckStep(at, name, out, next) ==
    /\ pc = at
    /\ validation_results' = out.res
    /\ log' = Append(log, name)
    /\ IF out.raised
       THEN Finish(Failure)
       ELSE pc' = next /\ UNCHANGED response
    /\ UNCHANGED <<entry, file, val_config, ins_config, request, vdf, pdf,
                   metadata, data_rows, db, success>>

SheetNotEmptyStep ==
    CheckStep("v_sheet", "sheet",
              ValidateSheetNotEmpty(validation_results, Val(vdf)), "v_company")

CompanyNameStep ==
    CheckStep("v_company", "company",
              ValidateCompanyName(validation_results, Val(vdf), Val(val_config)),
              "v_audit")

\* if self.config.get("validate_audit_type", True): ... else: logger.info(...)
AuditStep ==
    IF pc = "v_audit" /\ Val(val_config).validate_audit_type
    THEN CheckStep("v_audit", "audit",
              ValidateHasAuditedValues(validation_results, Val(vdf), Val(val_config)),
              "v_year")
    ELSE CheckStep("v_audit", "audit_skipped", Done(validation_results), "v_year")

YearRowStep ==
    CheckStep("v_year", "year",
              ValidateYearRow(validation_results, Val(vdf), Val(val_config)),
              "v_row_names")

RowNamesStep ==
    CheckStep("v_row_names", "row_names",
              ValidateRowNames(validation_results, Val(vdf), Val(val_config)),
              "v_row_values")

RowValuesStep ==
    CheckStep("v_row_values", "row_values",
              ValidateRowValues(validation_results, Val(vdf), Val(val_config)),
              "v_continuity")

ContinuityStep ==
    CheckStep("v_continuity", "continuity",
              ValidateColumnContinuity(validation_results, Val(vdf), Val(val_config)),
              "v_done")

\* a gate that lets every result through
NeverRejects(res) == FALSE

\* if not validation_result["is_valid"]: return JSONResponse(status_code=400)
Rejects(res) == ~res.is_valid

\* main.py: the validity gate after validate_file has returned
Gate ==
    /\ pc = "v_done"
    /\ IF Rejects(validation_results)
       THEN Finish("400") /\ log' = Append(log, "rejected")
       ELSE pc' = "i_config" /\ log' = Append(log, "accepted") /\ UNCHANGED response
    /\ UNCHANGED <<entry, file, val_config, ins_config, request, vdf,
                   validation_results, pdf, metadata, data_rows, db, success>>

\* ----------------------------------------------------- one validator, reused

\* validate_file calls a caller makes on one ExcelValidator
MaxCalls == 2

\* a program holding an ExcelValidator, as validator.py's main does
InitLib == entry = "lib" /\ pc = "start" /\ InitCommon

\* validate_file calls begun so far
CallCount == Cardinality({i \in 1..Len(log) : log[i] = "file_exists"})

\* validator = ExcelValidator(config)
NewValidator ==
    /\ pc = "start"
    /\ \E cfg \in ValConfigs : val_config' = Some(cfg)
    /\ validation_results' = NewResults
    /\ pc' = "v_exists"
    /\ log' = Append(log, "new_validator")
    /\ UNCHANGED <<entry, file, ins_config, request, vdf, pdf, metadata,
                   data_rows, db, success, response>>

\* validate_file has returned self.validation_results and the caller calls
\* it again with the same path on the same validator: __init__ does not run
\* again, and validate_file assigns nothing to self.validation_results
ValidateAgain ==
    /\ pc = "v_done"
    /\ CallCount < MaxCalls
    /\ pc' = "v_exists"
    /\ log' = Append(log, "validate_again")
    /\ UNCHANGED <<entry, file, val_config, ins_config, request, vdf,
                   validation_results, pdf, metadata, data_rows, db, success,
                   response>>

\* ------------------------------------------------------------------ insertion
\* process_excel_for_insertion (from the pipeline) and main (from the
\* command line) of script.py run the same steps.

MaxRowsOfEntry == IF entry = "api" THEN ApiMaxRows ELSE CliMaxRows

\* config = load_config(config_path); if not config: return False
InsLoadConfig ==
    /\ pc = "i_config"
    /\ \/ /\ \E cfg \in InsConfigs(MaxRowsOfEntry) : ins_config' = Some(cfg)
          /\ pc' = "i_load"
          /\ log' = Append(log, "load_ins_config")
          /\ UNCHANGED response
       \/ /\ Finish(Failure)
          /\ log' = Append(log, "load_ins_config_failed")
          /\ UNCHANGED ins_config
    /\ UNCHANGED <<entry, file, val_config, request, vdf, validation_results,
                   pdf, metadata, data_rows, db, success>>

\* the sheet the processor's loader reads: the file the validator read, or,
\* from the command line, the file named there
SheetsToLoad == IF file # None THEN {Val(file)} ELSE CliSheets

\* ExcelProcessor.load_excel; if not excel_processor.load_excel(): return False
InsLoadExcel ==
    /\ pc = "i_load"
    /\ \/ /\ \E sheet \in SheetsToLoad : file' = Some(sheet) /\ pdf' = Some(sheet)
          /\ pc' = "i_extract"
          /\ log' = Append(log, "load_grid")
          /\ UNCHANGED response
       \/ /\ Finish(Failure)
          /\ log' = Append(log, "load_grid_failed")
          /\ UNCHANGED <<file, pdf>>
    /\ UNCHANGED <<entry, val_config, ins_config, request, vdf,
                   validation_results, metadata, data_rows, db, success>>

\* an emptiness test that lets every batch through
NoDataNever(rows) == FALSE

\* not data_rows
NoData(rows) == rows = <<>>

\* data_rows = extract_financial_data(...); if not data_rows: return False.
\* An exception of extract_metadata is not caught in script.py: the pipeline
\* answers 500, the command line run dies with exit code 1.
Extract ==
    /\ pc = "i_extract"
    /\ LET md == ExtractMetadata(Val(pdf), Val(ins_config))
           rows == IF md.raised THEN <<>>
                   ELSE ExtractFinancialData(Val(pdf), Val(ins_config).attributes,
                                             md, request)
       IN  /\ metadata' = md
           /\ data_rows' = rows
           /\ log' = Append(log, IF md.raised THEN "extract_raised" ELSE "extract")
           /\ IF NoData(rows)
              THEN Finish(Failure)
              ELSE pc' = "i_connect" /\ UNCHANGED response
    /\ UNCHANGED <<entry, file, val_config, ins_config, request, vdf,
                   validation_results, pdf, db, success>>

\* DatabaseConnector.connect; if not db_connector.connect(): return False
DbConnect ==
    /\ pc = "i_connect"
    /\ \/ /\ db' = [db EXCEPT !.connected = TRUE]
          /\ pc' = "i_insert"
          /\ log' = Append(log, "connect")
          /\ UNCHANGED response
       \/ /\ Finish(Failure)
          /\ log' = Append(log, "connect_failed")
          /\ UNCHANGED db
    /\ UNCHANGED <<entry, file, val_config, ins_config, request, vdf,
                   validation_results, pdf, metadata, data_rows, success>>

\* cursor.executemany: the first k rows of the batch are written to the open
\* transaction; with k below the batch's length it raised at row k + 1
ExecuteMany(d, rows, k) == [d EXCEPT !.pending = @ \o SubSeq(rows, 1, k)]

\* connection.commit(): what the transaction holds becomes durable
Commit(d) == [d EXCEPT !.table = @ \o d.pending, !.pending = <<>>]

\* an except branch without the rollback
NoRollback(d) == d

\* connection.rollback(): what the transaction holds is dropped
Rollback(d) == [d EXCEPT !.pending = <<>>]

\* DatabaseConnector.insert_data on an open connection: executemany and
\* commit return True; when executemany raises after k rows, or the commit
\* raises, the except branch rolls back and returns False
InsertData(d, rows, k, commit_ok) ==
    IF k = Len(rows) /\ commit_ok
    THEN [db |-> Commit(ExecuteMany(d, rows, k)), ok |-> TRUE]
    ELSE [db |-> Rollback(ExecuteMany(d, rows, k)), ok |-> FALSE]

\* success = db_connector.insert_data(data_rows)
DbInsert ==
    /\ pc = "i_insert"
    /\ \E k \in 0..Len(data_rows), commit_ok \in BOOLEAN :
          /\ db' = InsertData(db, data_rows, k, commit_ok).db
          /\ success' = InsertData(db, data_rows, k, commit_ok).ok
    /\ pc' = "i_close"
    /\ log' = Append(log, "insert")
    /\ UNCHANGED <<entry, file, val_config, ins_config, request, vdf,
                   validation_results, pdf, metadata, data_rows, response>>

\* DatabaseConnector.close commits and closes; then return success
DbClose ==
    /\ pc = "i_close"
    /\ db' = [Commit(db) EXCEPT !.connected = FALSE]
    /\ log' = Append(log, "close")
    /\ Finish(IF success THEN Success ELSE Failure)
    /\ UNCHANGED <<entry, file, val_config, ins_config, request, vdf,
                   validation_results, pdf, metadata, data_rows, success>>

\* ------------------------------------------------------------------ specifications

Next ==
    \/ LoadValConfig
    \/ ValidateFileExists
    \/ ValidateFileExtension
    \/ LoadExcel
    \/ SheetNotEmptyStep
    \/ CompanyNameStep
    \/ AuditStep
    \/ YearRowStep
    \/ RowNamesStep
    \/ RowValuesStep
    \/ ContinuityStep
    \/ Gate
    \/ InsLoadConfig
    \/ InsLoadExcel
    \/ Extract
    \/ DbConnect
    \/ DbInsert
    \/ DbClose

NextCli ==
    \/ InsLoadConfig
    \/ InsLoadExcel
    \/ Extract
    \/ DbConnect
    \/ DbInsert
    \/ DbClose

NextReuse ==
    \/ NewValidator
    \/ ValidateFileExists
    \/ ValidateFileExtension
    \/ LoadExcel
    \/ SheetNotEmptyStep
    \/ CompanyNameStep
    \/ AuditStep
    \/ YearRowStep
    \/ RowNamesStep
    \/ RowValuesStep
    \/ ContinuityStep
    \/ ValidateAgain

\* the request pipeline of main.py
Spec == Init /\ [][Next]_vars

\* a command line run of script.py
SpecCli == InitCli /\ [][NextCli]_vars

\* a program that calls validate_file up to MaxCalls times on one validator
SpecReuse == InitLib /\ [][NextReuse]_vars

\* ------------------------------------------------------------------ claims

LogHas(x) == \E i \in 1..Len(log) : log[i] = x

ValidationPcs ==
    {"start", "v_exists", "v_ext", "v_load", "v_sheet", "v_company", "v_audit",
     "v_year", "v_row_names", "v_row_values", "v_continuity", "v_done"}

LaterChecks ==
    {"company", "audit", "audit_skipped", "year", "row_names", "row_values",
     "continuity"}

InsertionSteps ==
    {"load_ins_config", "load_ins_config_failed", "load_grid", "load_grid_failed",
     "extract", "extract_raised", "connect", "connect_failed", "insert", "close"}

\* C1: at every point of a validation, the errors list is non-empty exactly
\* when is_valid is false.
C1_ErrorsIffInvalid ==
    (Len(validation_results.errors) > 0) <=> ~validation_results.is_valid

\* C1 witness: in the middle of validate_file, after errors and warnings
\* have been added.
C1_Witness ==
    /\ pc = "v_row_values"
    /\ Len(validation_results.errors) >= 2
    /\ Len(validation_results.warnings) >= 1

\* C2: a step of the insertion (config load, grid load, extraction, connect,
\* insert, close) is only ever performed after validation has returned with
\* is_valid true; a run whose validation returned is_valid false has
\* performed none of them.
C2_ValidityGate ==
    (\E i \in 1..Len(log) : log[i] \in InsertionSteps)
        => /\ validation_results.is_valid
           /\ LogHas("accepted")
           /\ ~LogHas("rejected")

\* C2 witness: a run that was validated, inserted and answered 200.
C2_Witness ==
    /\ pc = "done"
    /\ response = "200"
    /\ LogHas("insert")
    /\ Len(db.table) > 0

\* C3 (as claimed): once the grid is loaded, validate_file returns a result
\* and every check has run, whatever the grid and the config.
C3_FaultIsolation ==
    (pc \notin ValidationPcs /\ LogHas("sheet")) => LogHas("continuity")

\* C4 (as claimed): after a structural failure (file unreadable, or grid
\* empty or wholly blank) no later check runs and no finding of a later
\* check is in the result.
StructuralFailure ==
    \/ \E i \in 1..Len(validation_results.errors) :
            validation_results.errors[i].check = "file"
    \/ /\ LogHas("sheet")
       /\ DfEmpty(Val(vdf)) \/ AllNull(Val(vdf))

C4_ShortCircuit ==
    StructuralFailure =>
        /\ \A i \in 1..Len(log) : log[i] \notin LaterChecks
        /\ \A i \in 1..Len(validation_results.errors) :
                validation_results.errors[i].check \in {"file", "sheet"}
        /\ validation_results.warnings = <<>>

\* the extraction has returned its metadata
Extracted == LogHas("extract")

\* C5 (as claimed): every entry of the year mapping has a calendar year
\* within [1900, 2100].
C5_YearsInRange ==
    Extracted =>
        \A k \in 1..Len(metadata.years) : InYearRange(metadata.years[k].year)

\* C6 (as claimed): given the same configured 1-based years-row number N, the
\* extractor reads the grid row the validator read, row N-1 (0-based): the
\* year mapping is the one drawn from that row.
C6_SameRow ==
    (/\ Extracted
     /\ Val(val_config).year_row > 0
     /\ Val(ins_config).year_row = Some(Val(val_config).year_row))
        => metadata.years =
              YearsFrom(ILoc(Val(pdf), Val(val_config).year_row - 1),
                        AccountTypeRow(Val(pdf), Val(ins_config)), 1)

\* the years row the extractor read
ExtractorYearRow == ILoc(Val(pdf), Val(Val(ins_config).year_row))

\* every entry is the integer of the cell at its column of the years row
EntriesFromTheirColumns ==
    \A k \in 1..Len(metadata.years) :
        LET e == metadata.years[k]
        IN  /\ e.col + 1 \in 2..Len(ExtractorYearRow)
            /\ NotNa(ExtractorYearRow[e.col + 1])
            /\ IntOf(ExtractorYearRow[e.col + 1]) = Ok(e.year)

\* every record carries the year and the ordinal of an entry of the mapping
RecordsCarryEntries ==
    \A i \in 1..Len(data_rows) :
        \E k \in 1..Len(metadata.years) :
            /\ data_rows[i].year = metadata.years[k].year
            /\ data_rows[i].year_id = metadata.years[k].year_id

\* C7 (as claimed): a year at 1-based column c gets yearOrdinal c - 1.
C7_OrdinalIsColumnMinusOne ==
    Extracted =>
        \A k \in 1..Len(metadata.years) :
            metadata.years[k].year_id = (metadata.years[k].col + 1) - 1

\* C7 (amended): a year recognised at 1-based column c (c in 2..11) gets
\* yearOrdinal c - 2, the 0-based column index minus one, however many
\* earlier columns were blank or unparsable; every record carries the
\* ordinal of its year's entry.
C7_OrdinalIsColumnMinusTwo ==
    Extracted =>
        /\ EntriesFromTheirColumns
        /\ RecordsCarryEntries
        /\ \A k \in 1..Len(metadata.years) :
              metadata.years[k].year_id = (metadata.years[k].col + 1) - 2

\* C7 witness: the first data column is blank, the year of 1-based column 3
\* is recognised with ordinal 1, and a record carries it.
C7_Witness ==
    /\ Extracted
    /\ Len(metadata.years) >= 1
    /\ IsNa(ExtractorYearRow[2])
    /\ metadata.years[1].col + 1 = 3
    /\ metadata.years[1].year_id = 1
    /\ \E i \in 1..Len(data_rows) : data_rows[i].year_id = 1

\* the classification C8 claims for a cell of the account-type row
ClaimedAccType(account_type_row, col) ==
    IF IsNone(account_type_row) THEN "None"
    ELSE IF ~(col < Len(Val(account_type_row))) THEN "None"
    ELSE IF IsNa(Val(account_type_row)[col + 1]) THEN "None"
    ELSE IF Contains(AuditLower, Lower(Str(Val(account_type_row)[col + 1])))
    THEN "audited"
    ELSE "managed"

\* C8 (as claimed): the account type of every recognised year column is
\* audited when its account-type cell holds "audit" in any letter case,
\* managed for any other non-blank cell, unknown otherwise.
C8_CaseInsensitive ==
    Extracted =>
        \A k \in 1..Len(metadata.years) :
            metadata.years[k].acc_type =
                ClaimedAccType(AccountTypeRow(Val(pdf), Val(ins_config)),
                               metadata.years[k].col)

\* C9: the year mapping holds only 1-based columns 2..11, at most 10 entries,
\* each column once and in column order.
C9_YearWindow ==
    Extracted =>
        /\ Len(metadata.years) <= 10
        /\ \A k \in 1..Len(metadata.years) : metadata.years[k].col + 1 \in 2..11
        /\ \A j, k \in 1..Len(metadata.years) :
              j < k => metadata.years[j].col < metadata.years[k].col

\* C9 witness: a years row with recognisable years beyond the 11th column,
\* of which the mapping took exactly the ten of columns 2..11.
C9_Witness ==
    /\ Extracted
    /\ Len(metadata.years) = 10
    /\ metadata.years[10].col + 1 = 11
    /\ Len(ExtractorYearRow) >= 12
    /\ NotNa(ExtractorYearRow[12])
    /\ IntOf(ExtractorYearRow[12]).ok

\* the attribute descriptors of the run
Attributes == Val(ins_config).attributes

\* the cell of attribute k under the j-th entry of the year mapping
SourceCell(k, j) ==
    ILoc(Val(pdf), AttributeRowNumber(Attributes[k]))[metadata.years[j].col + 1]

\* the (attribute, year) pairs whose source cell is there, non-blank and
\* coercible to a float
Emitting ==
    {p \in (1..Len(Attributes)) \X (1..Len(metadata.years)) :
        /\ ILocOk(Val(pdf), AttributeRowNumber(Attributes[p[1]]))
        /\ NotNa(SourceCell(p[1], p[2]))
        /\ FloatOf(SourceCell(p[1], p[2])).ok}

\* attribute order first, column order within an attribute
Before(p, q) == p[1] < q[1] \/ (p[1] = q[1] /\ p[2] < q[2])

\* the place of a pair among the emitting pairs
Rank(p) == Cardinality({q \in Emitting : Before(q, p)}) + 1

\* C10: the records are exactly one per emitting pair, in attribute order and
\* then column order, each with its attribute's id and name, its cell's
\* value and its year's entry; a pair whose row or cell fails gives none and
\* takes no other pair's record away.
C10_RecordEmission ==
    Extracted =>
        /\ Len(data_rows) = Cardinality(Emitting)
        /\ \A p \in Emitting :
              LET r == data_rows[Rank(p)]
                  a == Attributes[p[1]]
                  y == metadata.years[p[2]]
              IN  /\ r.att_id = a.id
                  /\ r.att_name = a.name
                  /\ r.att_value = FloatOf(SourceCell(p[1], p[2])).v
                  /\ r.year = y.year
                  /\ r.year_id = y.year_id
                  /\ r.acc_type = y.acc_type
                  /\ r.customer_id = request.customer_id
                  /\ r.application_id = request.application_id

\* C10 witness: the first attribute's row is outside the sheet, a later
\* attribute has a cell that is there but is not a number, and an attribute
\* after that one still gave a record.
C10_Witness ==
    /\ Extracted
    /\ Len(Attributes) = 3
    /\ ~ILocOk(Val(pdf), AttributeRowNumber(Attributes[1]))
    /\ \E j \in 1..Len(metadata.years) :
          /\ ILocOk(Val(pdf), AttributeRowNumber(Attributes[2]))
          /\ NotNa(SourceCell(2, j))
          /\ ~FloatOf(SourceCell(2, j)).ok
    /\ \E i \in 1..Len(data_rows) : data_rows[i].att_id = Attributes[3].id

\* the years row the validator's checks read
ValidatorYearRow == ILoc(Val(vdf), Val(val_config).year_row - 1)

\* the distinct in-range years of that row
DistinctYears ==
    {ContinuityYears(ValidatorYearRow, 2)[i] :
        i \in 1..Len(ContinuityYears(ValidatorYearRow, 2))}

\* the adjacent pairs of the sorted distinct years that are more than 1 apart
DistinctGaps ==
    {p \in DistinctYears \X DistinctYears :
        /\ p[2] - p[1] > 1
        /\ ~\E y \in DistinctYears : p[1] < y /\ y < p[2]}

GapWarningCount ==
    Cardinality({i \in 1..Len(validation_results.warnings) :
        /\ validation_results.warnings[i].check = "continuity"
        /\ validation_results.warnings[i].msg = "Gap in year sequence"})

ContinuityErrorCount ==
    Cardinality({i \in 1..Len(validation_results.errors) :
        validation_results.errors[i].check = "continuity"})

\* C11 (as claimed, for a years row with at least one valid year): the
\* continuity check adds one warning per adjacent gap of the sorted distinct
\* years, and an error exactly when minimumRequiredYears > 0 and the number
\* of distinct valid years is below it.
C11_DistinctYearCount ==
    (/\ LogHas("continuity")
     /\ Val(val_config).year_row > 0
     /\ ILocOk(Val(vdf), Val(val_config).year_row - 1)
     /\ DistinctYears # {})
        => /\ GapWarningCount = Cardinality(DistinctGaps)
           /\ (ContinuityErrorCount > 0) <=>
                 /\ Val(val_config).min_required_years > 0
                 /\ Cardinality(DistinctYears) < Val(val_config).min_required_years

InsertCount == Cardinality({i \in 1..Len(log) : log[i] = "insert"})

\* C12: once insert_data has been called, the whole batch is durable and the
\* call returned success, or no row of it is durable or left pending and it
\* returned failure; this stays so through close(), the insert is made once,
\* and the run answers success or failure accordingly.
C12_SinkAtomicity ==
    LogHas("insert") =>
        /\ InsertCount = 1
        /\ db.pending = <<>>
        /\ success => db.table = data_rows
        /\ ~success => db.table = <<>>
        /\ pc = "done" => response = (IF success THEN Success ELSE Failure)

\* C12 witness: an insert of a batch of several rows failed, close() has
\* committed and closed, and the run answered failure.
C12_Witness ==
    /\ pc = "done"
    /\ LogHas("close")
    /\ ~success
    /\ Len(data_rows) >= 2
    /\ db.table = <<>>
    /\ response = Failure

SinkTouched ==
    \/ LogHas("connect")
    \/ LogHas("connect_failed")
    \/ LogHas("insert")
    \/ LogHas("close")

\* C13: when the extraction of a validated sheet has produced no record, the
\* run has ended with failure and the database was never connected to or
\* written; whenever the database is connected to or written, the batch is
\* not empty, and a run that answers success had a non-empty batch.
C13_EmptyExtractionFails ==
    /\ (Extracted /\ data_rows = <<>>) =>
            /\ pc = "done"
            /\ response = Failure
            /\ ~SinkTouched
            /\ db = NoDb
    /\ SinkTouched => data_rows # <<>>
    /\ (pc = "done" /\ response = Success) => data_rows # <<>>

\* C13 witness: a sheet passed validation, its extraction ran to the end
\* with no record, and the run answered failure without touching the database.
C13_Witness ==
    /\ validation_results.is_valid
    /\ Extracted
    /\ data_rows = <<>>
    /\ pc = "done"
    /\ response = Failure
    /\ db = NoDb

\* validate_file run on a validator fresh from __init__, all checks through
ValidateFileResult(df, cfg) ==
    LET r1 == ValidateSheetNotEmpty(NewResults, df).res
        r2 == ValidateCompanyName(r1, df, cfg).res
        r3 == IF cfg.validate_audit_type
              THEN ValidateHasAuditedValues(r2, df, cfg).res
              ELSE r2
        r4 == ValidateYearRow(r3, df, cfg).res
        r5 == ValidateRowNames(r4, df, cfg).res
        r6 == ValidateRowValues(r5, df, cfg).res
    IN  ValidateColumnContinuity(r6, df, cfg).res

\* a validate_file call has just returned after its last check, and so did
\* every call before it: all of them read the same grid with the same schema
CallReturned ==
    /\ pc = "v_done"
    /\ log[Len(log)] = "continuity"
    /\ Cardinality({i \in 1..Len(log) : log[i] = "continuity"}) = CallCount

\* C14 (as claimed): the result a validate_file call returns holds the
\* findings of that call alone, i.e. what the checks find on that grid with
\* that schema starting from an empty result, on every call made on one
\* validator.
C14_FreshPerCall ==
    CallReturned =>
        validation_results = ValidateFileResult(Val(vdf), Val(val_config))

\* the cell _validate_company_name compares with expected_company_name: the
\* one next to the label of the first labelled row
ValidatorCompanyCell(df) == df.rows[FirstCompanyRow(df)][2]

\* C15 (as claimed): once extract_metadata has run, the company name in the
\* metadata is the cell next to the label of the first "Name of the Company"
\* row, the cell the validator compares; without such a row the metadata
\* holds no company name.
C15_SameCompanyCell ==
    Extracted =>
        metadata.company_name =
            IF CompanyRows(Val(pdf)) = {}
            THEN None
            ELSE Some(ValidatorCompanyCell(Val(pdf)))

====
